---- MODULE Spec2Model ----
(***************************************************************************)
(* OntoAttentionLSTM (src/onto_attention.py): a recurrent layer whose      *)
(* input at each timestep is a (sense x hypernym) grid of embeddings plus  *)
(* one sense-prior scalar.  One sample is modelled (samples are            *)
(* independent along the batch axis).                                      *)
(*                                                                         *)
(* Reals are fixed-point integers with seven decimal digits (Scale units   *)
(* per 1.0), so that K.epsilon() = 1e-7 is exactly one unit.  Products and *)
(* quotients are computed digit by digit to stay inside 32-bit integers.   *)
(***************************************************************************)
EXTENDS Integers, Sequences, FiniteSets, TLC

VARIABLES
    num_senses,        \* self.num_senses
    num_hyps,          \* self.num_hyps
    use_attention,     \* self.use_attention
    return_attention,  \* self.return_attention
    return_sequences,  \* self.return_sequences
    stateful,          \* self.stateful
    weights,           \* attention parameters (None when use_attention is off)
    input_spec,        \* self.input_spec[0].shape as <<senses, hyps>>, None before build
    states,            \* self.states: <<h, c>>, or None
    pc,                \* position in the layer's life cycle
    t,                 \* number of timesteps consumed by the running call
    x_t,               \* the timestep slice handed to step
    mask_t,            \* the mask slice handed to step (None when call has mask=None)
    run_states,        \* <<h, c>> carried through the scan
    twin_states,       \* <<h, c>> carried by the same scan with return_attention flipped
    last_output,       \* the output the scan emitted for the latest timestep
    locals,            \* the local tensors of the latest _step
    invocation,        \* number of calls started
    masked,            \* whether the running call was given a mask
    prev_final,        \* final <<h, c>> of the previous call
    full_mask,         \* the mask argument of compute_mask (time x senses x hyps)
    output_mask        \* the value compute_mask returned

vars == <<num_senses, num_hyps, use_attention, return_attention, return_sequences,
          stateful, weights, input_spec, states, pc, t, x_t, mask_t, run_states,
          twin_states, last_output, locals, invocation, masked, prev_final,
          full_mask, output_mask>>

----------------------------------------------------------------------------
\* Bounds of the model.

MaxSenses == 3
MaxHyps == 2
MaxSteps == 2
MaxCalls == 2

----------------------------------------------------------------------------
\* Fixed-point arithmetic.

Scale == 10^7
One == Scale
Half == Scale \div 2
Fix(n) == n * Scale

\* K.epsilon(), Keras' default fuzz factor 1e-7.
EPSILON == Scale \div 10^7

\* Python's None.
None == <<>>

Abs(a) == IF a < 0 THEN -a ELSE a
Sgn(a) == IF a < 0 THEN -1 ELSE 1

\* floor(a * b / Scale) for a = a1 * 10^4 + a0 and b = b1 * 10^4 + b0.
MulParts(a1, a0, b1, b0) ==
    a1 * b1 * 10 + (a1 * b0 + a0 * b1 + (a0 * b0) \div 10000 + 500) \div 1000

\* a * b on reals, truncated towards zero.
Mul(a, b) ==
    Sgn(a) * Sgn(b) *
        MulParts(Abs(a) \div 10000, Abs(a) % 10000, Abs(b) \div 10000, Abs(b) % 10000)

RECURSIVE DivFrac(_, _, _, _)
DivFrac(r, b, n, acc) ==
    IF n = 0 THEN acc
    ELSE DivFrac((r * 10) % b, b, n - 1, acc * 10 + (r * 10) \div b)

\* a / b on reals, truncated towards zero (long division, seven digits).
Div(a, b) ==
    Sgn(a) * Sgn(b) * DivFrac(Abs(a) % Abs(b), Abs(b), 7, Abs(a) \div Abs(b))

RECURSIVE ExpSeries(_, _)
ExpSeries(x, n) ==
    IF n > 9 THEN One ELSE One + Mul(x, ExpSeries(x, n + 1)) \div n

\* K.exp: Taylor series on [-1/2, 1/2], argument halving outside it.
Square(y) == Mul(y, y)

RECURSIVE Exp(_)
Exp(x) == IF Abs(x) <= Half THEN ExpSeries(x, 1) ELSE Square(Exp(x \div 2))

\* K.sigmoid: 1 / (1 + exp(-x)), evaluated on the side where exp is at most 1.
OddsToProbability(e) == Div(e, One + e)

Sigmoid(x) ==
    IF x >= 0 THEN Div(One, One + Exp(-x)) ELSE OddsToProbability(Exp(x))

----------------------------------------------------------------------------
\* Tensor helpers.  A tensor is a sequence (of sequences ...) of reals.

\* The tensor with the elements of f, computed once (TLC would otherwise
\* recompute an element of f each time it is read).
Tensor(f) == f \o <<>>

RECURSIVE SumSeq(_)
SumSeq(s) == IF s = <<>> THEN 0 ELSE Head(s) + SumSeq(Tail(s))

RECURSIVE Flatten(_)
Flatten(g) == IF g = <<>> THEN <<>> ELSE Head(g) \o Flatten(Tail(g))

Max2(a, b) == IF a > b THEN a ELSE b

RECURSIVE MaxSeq(_)
MaxSeq(s) == IF Len(s) = 1 THEN s[1] ELSE Max2(Head(s), MaxSeq(Tail(s)))

\* K.sum over both grid axes.
SumGrid(g) == SumSeq(Flatten(g))

\* K.dot of a vector with a matrix given as a sequence of rows.
DotVM(v, m) ==
    Tensor([j \in 1..Len(m[1]) |->
                SumSeq(Tensor([i \in 1..Len(v) |-> Mul(v[i], m[i][j])]))])

\* K.dot of two vectors.
DotVV(v, w) == SumSeq(Tensor([i \in 1..Len(v) |-> Mul(v[i], w[i])]))

\* An axis of length 1 is broadcast along the axis it is combined with.
Bc(v, k) == IF Len(v) = 1 THEN v[1] ELSE v[k]

\* K.softmax over a flat vector.
ShiftedExp(v, m) == Tensor([i \in 1..Len(v) |-> Exp(v[i] - m)])

Normalised(e, z) == Tensor([i \in 1..Len(e) |-> Div(e[i], z)])

SoftmaxOfExp(e) == Normalised(e, SumSeq(e))

Softmax(v) == SoftmaxOfExp(ShiftedExp(v, MaxSeq(v)))

\* K.reshape of a flat vector back to a grid with rows of length nh.
Reshape(v, ns, nh) ==
    Tensor([s \in 1..ns |-> Tensor([h \in 1..nh |-> v[(s - 1) * nh + h]])])

----------------------------------------------------------------------------
\* The recurrent cell the layer inherits (LSTM.step of Keras): any pure
\* function of (input, hidden, cell).  Here: gates fixed at one half, the cell
\* value rounded to halves and clipped to [-1, 1].

Quarter == Scale \div 4

Clip(v) == IF v > One THEN One ELSE IF v < -One THEN -One ELSE v

Quantise(v) == Half * ((v + Quarter) \div Half)

LstmCell(lstm_input_t, lstm_states) ==
    Tensor([j \in 1..Len(lstm_states[2]) |->
        Clip(Quantise((lstm_states[2][j] + lstm_states[1][j]) \div 2
                      + SumSeq(lstm_input_t)))])

LstmHidden(c) == Tensor([j \in 1..Len(c) |-> c[j] \div 2])

LstmOutput(c) == <<LstmHidden(c), c>>

LstmStep(lstm_input_t, lstm_states) == LstmOutput(LstmCell(lstm_input_t, lstm_states))

\* LSTM.get_initial_states: zero vectors of size output_dim (here 1).
ZeroStates == << <<0>>, <<0>> >>

----------------------------------------------------------------------------
\* OntoAttentionLSTM._step, local by local.

\* x_onto_aware[:, :, :, :-1]
SynsetEmbeddings(x_onto_aware) ==
    Tensor([s \in 1..Len(x_onto_aware) |->
        Tensor([h \in 1..Len(x_onto_aware[s]) |->
            SubSeq(x_onto_aware[s][h], 1, Len(x_onto_aware[s][h]) - 1)])])

\* x_onto_aware[:, 0, 0, -1]
SenseParameters(x_onto_aware) == x_onto_aware[1][1][Len(x_onto_aware[1][1])]

\* Variant with the sense indices counted from the last sense.
RawSenseScoresReversed(sense_parameters, n_senses) ==
    Tensor([k \in 1..n_senses |->
        Mul(sense_parameters, Exp(Mul(-sense_parameters, Fix(n_senses - k))))])

\* sense_parameters * K.exp(-sense_parameters * expanded_sense_indices), one
\* score per configured sense
RawSenseScores(sense_parameters, n_senses) ==
    Tensor([k \in 1..n_senses |->
        Mul(sense_parameters, Exp(Mul(-sense_parameters, Fix(k - 1))))])

\* K.sum(K.squeeze(mask_i, axis=-1), axis=2)
SenseMask(mask_i) == Tensor([s \in 1..Len(mask_i) |-> SumSeq(mask_i[s])])

\* Variant without the switch: masked senses keep their scores.
KeepSenseScores(sense_mask, sense_scores) ==
    Tensor([s \in 1..Len(sense_mask) |-> Bc(sense_scores, s)])

\* sense_scores after K.switch(sense_mask, sense_scores, zeros)
SwitchSenseScores(sense_mask, sense_scores) ==
    Tensor([s \in 1..Len(sense_mask) |->
                IF sense_mask[s] # 0 THEN Bc(sense_scores, s) ELSE 0])

SenseScores(x_onto_aware, mask_i, n_senses) ==
    IF mask_i = None
    THEN RawSenseScores(SenseParameters(x_onto_aware), n_senses)
    ELSE SwitchSenseScores(SenseMask(mask_i),
                           RawSenseScores(SenseParameters(x_onto_aware), n_senses))

\* Variant without the normalisation.
SenseProbabilitiesUnnormalised(sense_scores) == sense_scores

\* sense_scores / (K.sum(sense_scores, axis=1) + K.epsilon())
SenseProbabilities(sense_scores) ==
    Normalised(sense_scores, SumSeq(sense_scores) + EPSILON)

\* hyp_scores of the learned attention, masked scores switched to zero
HypProjection(input_hyp_projection, context_hyp_projection) ==
    Tensor([j \in 1..Len(input_hyp_projection) |->
        Sigmoid(input_hyp_projection[j] + context_hyp_projection[j])])

HypScore(embedding, context_hyp_projection, w) ==
    DotVV(HypProjection(DotVM(embedding, w.input_hyp_projector), context_hyp_projection),
          w.hyp_scorer)

MaskedHypScores(x_synset_embeddings, context_hyp_projection, mask_i, w) ==
    Tensor([s \in 1..Len(x_synset_embeddings) |->
        Tensor([h \in 1..Len(x_synset_embeddings[s]) |->
            IF mask_i = None \/ mask_i[s][h] # 0
            THEN HypScore(x_synset_embeddings[s][h], context_hyp_projection, w)
            ELSE 0])])

HypScores(x_synset_embeddings, h_tm1, mask_i, w) ==
    MaskedHypScores(x_synset_embeddings, DotVM(h_tm1, w.context_hyp_projector),
                    mask_i, w)

\* hyp_attention when use_attention is set: softmax over the flattened grid
SoftmaxGrid(hyp_scores) ==
    Reshape(Softmax(Flatten(hyp_scores)), Len(hyp_scores), Len(hyp_scores[1]))

LearnedHypAttention(x_synset_embeddings, h_tm1, mask_i, w) ==
    SoftmaxGrid(HypScores(x_synset_embeddings, h_tm1, mask_i, w))

\* Variant that leaves the ones unmasked.
UniformHypAttentionUnmasked(x_synset_embeddings, mask_i) ==
    Tensor([s \in 1..Len(x_synset_embeddings) |->
        Tensor([h \in 1..Len(x_synset_embeddings[s]) |-> One])])

\* hyp_attention when use_attention is off: ones, switched to zero by the mask
UniformHypAttention(x_synset_embeddings, mask_i) ==
    Tensor([s \in 1..Len(x_synset_embeddings) |->
        Tensor([h \in 1..Len(x_synset_embeddings[s]) |->
            IF mask_i = None \/ mask_i[s][h] # 0 THEN One ELSE 0])])

HypAttention(x_synset_embeddings, h_tm1, mask_i, use_att, w) ==
    IF use_att THEN LearnedHypAttention(x_synset_embeddings, h_tm1, mask_i, w)
    ELSE UniformHypAttention(x_synset_embeddings, mask_i)

\* hyp_attention / (K.sum(hyp_attention, axis=2) + K.epsilon())
HypGivenSenseAttention(hyp_attention) ==
    Tensor([s \in 1..Len(hyp_attention) |->
        Normalised(hyp_attention[s], SumSeq(hyp_attention[s]) + EPSILON)])

\* hyp_given_sense_attention * K.expand_dims(sense_probabilities)
SenseHypAttention(hyp_given_sense_attention, sense_probabilities) ==
    Tensor([s \in 1..Len(hyp_given_sense_attention) |->
        Tensor([h \in 1..Len(hyp_given_sense_attention[s]) |->
            Mul(hyp_given_sense_attention[s][h], Bc(sense_probabilities, s))])])

\* K.switch(mask_i, x_synset_embeddings, zeros_like_input)
MaskedEmbeddings(x_synset_embeddings, mask_i) ==
    Tensor([s \in 1..Len(x_synset_embeddings) |->
        Tensor([h \in 1..Len(x_synset_embeddings[s]) |->
            IF mask_i = None \/ mask_i[s][h] # 0 THEN x_synset_embeddings[s][h]
            ELSE Tensor([i \in 1..Len(x_synset_embeddings[s][h]) |-> 0])])])

\* K.sum(x_synset_embeddings * K.expand_dims(sense_hyp_attention), axis=(1,2))
LstmInput(x_synset_embeddings, sense_hyp_attention) ==
    Tensor([i \in 1..Len(x_synset_embeddings[1][1]) |->
        SumGrid(Tensor([s \in 1..Len(x_synset_embeddings) |->
                    Tensor([h \in 1..Len(x_synset_embeddings[s]) |->
                        Mul(x_synset_embeddings[s][h][i], sense_hyp_attention[s][h])])]))])

\* _step, lines 131-134: the inherited cell's step, and the returned values
\* (the other locals are kept in the record so that they can be observed).
StepCell(hc, sense_scores, sense_probabilities, hyp_attention, sense_hyp_attention, lstm_input_t) ==
    [h |-> hc[1], c |-> hc[2],
     sense_hyp_attention |-> sense_hyp_attention,
     sense_scores |-> sense_scores,
     sense_probabilities |-> sense_probabilities,
     hyp_attention |-> hyp_attention,
     lstm_input_t |-> lstm_input_t]

StepRecur(st, sense_scores, sense_probabilities, hyp_attention, sense_hyp_attention, lstm_input_t) ==
    StepCell(LstmStep(lstm_input_t, st), sense_scores, sense_probabilities,
             hyp_attention, sense_hyp_attention, lstm_input_t)

\* _step, lines 123-130: mask the embeddings and take the weighted sum.
StepCombine(emb, st, mask_i, sense_scores, sense_probabilities, hyp_attention, sense_hyp_attention) ==
    StepRecur(st, sense_scores, sense_probabilities, hyp_attention,
              sense_hyp_attention,
              LstmInput(MaskedEmbeddings(emb, mask_i), sense_hyp_attention))

\* _step, lines 118-121: renormalise within each sense, multiply by p(sense).
StepJoin(emb, st, mask_i, sense_scores, sense_probabilities, hyp_attention) ==
    StepCombine(emb, st, mask_i, sense_scores, sense_probabilities, hyp_attention,
                SenseHypAttention(HypGivenSenseAttention(hyp_attention),
                                  sense_probabilities))

\* _step, lines 94-116: sense probabilities and hypernym attention.
StepAttend(emb, st, mask_i, sense_scores) ==
    StepJoin(emb, st, mask_i, sense_scores, SenseProbabilities(sense_scores),
             HypAttention(emb, st[1], mask_i, use_attention, weights))

\* _step: h_tm1 = states[0], mask_i = states[-1], lstm_states = states[:-1].
_step(x_onto_aware, st, mask_i) ==
    StepAttend(SynsetEmbeddings(x_onto_aware), st, mask_i,
               SenseScores(x_onto_aware, mask_i, num_senses))

\* Variant that hands the output back as the carried hidden state.
StepReturnOutputAsState(r, ret_att) ==
    IF ret_att THEN [output |-> r.sense_hyp_attention,
                     states |-> <<Flatten(r.sense_hyp_attention), r.c>>]
    ELSE [output |-> r.h, states |-> <<r.h, r.c>>]

\* step, lines 138-141: the output is the attention grid or the hidden
\* vector; the carried states are [h, c] either way.
StepReturn(r, ret_att) ==
    IF ret_att THEN [output |-> r.sense_hyp_attention, states |-> <<r.h, r.c>>]
    ELSE [output |-> r.h, states |-> <<r.h, r.c>>]

step(x, st, mask_i, ret_att) == StepReturn(_step(x, st, mask_i), ret_att)

----------------------------------------------------------------------------
\* Inputs.

\* Sense-prior parameters: negative, zero, positive, and positive ones whose
\* sense scores are of the order of K.epsilon() (once and ten times
\* K.epsilon()).  Every score they lead to, for the numbers of senses of the
\* model, is either exact in the fixed point or far above its resolution.
EpsilonLambda == EPSILON

TinyLambda == 10 * EPSILON

LambdaSet == {-Half, 0, EpsilonLambda, TinyLambda, Half, One, 2 * One}

\* Base embeddings of the words (input_dim = 2).
Words == { <<One, -Half>>, <<-2 * One, One + Half>> }

\* The slice of one timestep: cell (s, h) holds an embedding derived from the
\* word and, replicated in every cell, the sense-prior parameter.
XInput(word, lam, ns, nh) ==
    Tensor([s \in 1..ns |-> Tensor([h \in 1..nh |->
        <<word[1] + Fix(s - 1), word[2] - Half * (h - 1), lam>>])])

\* A mask slice is a grid of 0/1 flags.  A sense's row is all masked, all
\* unmasked, only its first slot unmasked, or only its first slot masked
\* (these are all the rows there are for up to two hypernyms).
RowPatterns(nh) ==
    { Tensor([h \in 1..nh |-> 0]),
      Tensor([h \in 1..nh |-> 1]),
      Tensor([h \in 1..nh |-> IF h = 1 THEN 1 ELSE 0]),
      Tensor([h \in 1..nh |-> IF h = 1 THEN 0 ELSE 1]) }

MaskGrids(ns, nh) == [1..ns -> RowPatterns(nh)]

\* The attention parameters build creates (output_dim = 1).
AttentionWeights ==
    [input_hyp_projector |-> << <<Half>>, <<-One>> >>,
     context_hyp_projector |-> << <<One>> >>,
     hyp_scorer |-> <<2 * One>>]

\* (hidden, cell) pairs a step may start from.
CarriedStates == { ZeroStates, << <<Half>>, <<One>> >> }

\* The inputs a running call draws from: (word, sense prior, mask pattern).
MaskOnes(ns, nh) == Tensor([s \in 1..ns |-> Tensor([h \in 1..nh |-> 1])])

MaskFirstCellOnly(ns, nh) ==
    Tensor([s \in 1..ns |-> Tensor([h \in 1..nh |-> IF s = 1 /\ h = 1 THEN 1 ELSE 0])])

RunInputs(ns, nh, with_mask) ==
    { [x |-> XInput(<<One, -Half>>, Half, ns, nh),
       mask |-> IF with_mask THEN MaskOnes(ns, nh) ELSE None],
      [x |-> XInput(<<-2 * One, One + Half>>, One, ns, nh),
       mask |-> IF with_mask THEN MaskFirstCellOnly(ns, nh) ELSE None] }

----------------------------------------------------------------------------
\* The layer's life cycle: construction (Init), build, call (a scan over the
\* timesteps), return.

Init ==
    /\ num_senses \in 1..MaxSenses
    /\ num_hyps \in 1..MaxHyps
    /\ use_attention \in BOOLEAN
    /\ return_attention \in BOOLEAN
    /\ return_sequences = TRUE
    /\ stateful \in BOOLEAN
    /\ weights = None
    /\ input_spec = None
    /\ states = None
    /\ pc = "constructed"
    /\ t = 0
    /\ x_t = None
    /\ mask_t = None
    /\ run_states = None
    /\ twin_states = None
    /\ last_output = None
    /\ locals = None
    /\ invocation = 0
    /\ masked = FALSE
    /\ prev_final = None
    /\ full_mask = None
    /\ output_mask = None

\* The input shapes build is tried with: the configured one, one sense more,
\* one hypernym more.
BuildShapes ==
    { <<num_senses, num_hyps>> }
    \cup { <<num_senses + 1, num_hyps>> : k \in {k \in {1} : num_senses < MaxSenses} }
    \cup { <<num_senses, num_hyps + 1>> : k \in {k \in {1} : num_hyps < MaxHyps} }

\* build: records the input shape, lets LSTM.build create the cell's weights
\* and (stateful) reset the states, creates the attention parameters.  The
\* sense and hypernym axes of input_shape are not compared with anything.
Build(input_shape) ==
    /\ pc = "constructed"
    /\ input_spec' = input_shape
    /\ weights' = IF use_attention THEN AttentionWeights ELSE None
    /\ states' = IF stateful THEN ZeroStates ELSE None
    /\ pc' = "built"
    /\ UNCHANGED <<num_senses, num_hyps, use_attention, return_attention,
                   return_sequences, stateful, t, x_t, mask_t, run_states,
                   twin_states, last_output, locals, invocation, masked,
                   prev_final, full_mask, output_mask>>

\* Variant that always starts from get_initial_states.
InitialStatesAlwaysZero == ZeroStates

\* call, lines 167-170: the initial states of the scan.
InitialStates == IF stateful THEN states ELSE ZeroStates

\* call, lines 166-172: a call starts, with or without a mask.
Call(with_mask) ==
    /\ pc \in {"built", "returned"}
    /\ invocation < MaxCalls
    /\ invocation' = invocation + 1
    /\ masked' = with_mask
    /\ run_states' = InitialStates
    /\ twin_states' = InitialStates
    /\ t' = 0
    /\ pc' = "running"
    /\ UNCHANGED <<num_senses, num_hyps, use_attention, return_attention,
                   return_sequences, stateful, weights, input_spec, states, x_t,
                   mask_t, last_output, locals, prev_final, full_mask,
                   output_mask>>

\* The timesteps a call can be given: they have the shape build recorded.
CallInputs ==
    IF pc = "running" THEN RunInputs(input_spec[1], input_spec[2], masked) ELSE {}

\* One iteration of the scan: the timestep's slices are handed to step, the
\* output is emitted and the states are carried on.
Step(in) ==
    /\ pc = "running"
    /\ t < MaxSteps
    /\ input_spec[1] = num_senses \/ num_senses = 1
    /\ x_t' = in.x
    /\ mask_t' = in.mask
    /\ locals' = _step(x_t', run_states, mask_t')
    /\ run_states' = StepReturn(locals', return_attention).states
    /\ last_output' = StepReturn(locals', return_attention).output
    /\ twin_states' = step(x_t', twin_states, mask_t', ~return_attention).states
    /\ t' = t + 1
    /\ UNCHANGED <<num_senses, num_hyps, use_attention, return_attention,
                   return_sequences, stateful, weights, input_spec, states, pc,
                   invocation, masked, prev_final, full_mask, output_mask>>

\* The sense axis of the input differs from num_senses: the element-wise
\* operations of _step fail on the shapes when the step is computed (a backend
\* may instead broadcast a single configured sense, which Step covers).
StepShapeError ==
    /\ pc = "running"
    /\ input_spec[1] # num_senses
    /\ pc' = "error"
    /\ UNCHANGED <<num_senses, num_hyps, use_attention, return_attention,
                   return_sequences, stateful, weights, input_spec, states, t,
                   x_t, mask_t, run_states, twin_states, last_output, locals,
                   invocation, masked, prev_final, full_mask, output_mask>>

\* call, lines 182-190: the scan is over; in stateful mode the final states
\* replace self.states.  The value returned (outputs or last_output) is made
\* of the outputs the steps emitted; the call's locals are dropped.
Return ==
    /\ pc = "running"
    /\ t >= 1
    /\ states' = IF stateful THEN run_states ELSE states
    /\ prev_final' = run_states
    /\ pc' = "returned"
    /\ x_t' = None
    /\ mask_t' = None
    /\ locals' = None
    /\ run_states' = None
    /\ twin_states' = None
    /\ last_output' = None
    /\ t' = 0
    /\ masked' = FALSE
    /\ UNCHANGED <<num_senses, num_hyps, use_attention, return_attention,
                   return_sequences, stateful, weights, input_spec, invocation,
                   full_mask, output_mask>>

Next ==
    \/ \E input_shape \in BuildShapes : Build(input_shape)
    \/ \E with_mask \in BOOLEAN : Call(with_mask)
    \/ \E in \in CallInputs : Step(in)
    \/ StepShapeError
    \/ Return

Spec == Init /\ [][Next]_vars

----------------------------------------------------------------------------
\* Specification of one step: Init draws the layer's configuration and the
\* inputs of _step (conforming to the configured shape), StepOnce applies step.

InitStep ==
    /\ num_senses \in 1..MaxSenses
    /\ num_hyps \in 1..MaxHyps
    /\ use_attention \in BOOLEAN
    /\ return_attention = FALSE
    /\ return_sequences = TRUE
    /\ stateful = TRUE
    /\ weights = IF use_attention THEN AttentionWeights ELSE None
    /\ input_spec = <<num_senses, num_hyps>>
    /\ states \in CarriedStates
    /\ pc = "step_ready"
    /\ t = 0
    /\ \E w \in Words, lam \in LambdaSet : x_t = XInput(w, lam, num_senses, num_hyps)
    /\ mask_t \in {None} \cup MaskGrids(num_senses, num_hyps)
    /\ run_states = states
    /\ twin_states = states
    /\ last_output = None
    /\ locals = None
    /\ invocation = 1
    /\ masked = (mask_t # None)
    /\ prev_final = None
    /\ full_mask = None
    /\ output_mask = None

StepOnce ==
    /\ pc = "step_ready"
    /\ locals' = _step(x_t, run_states, mask_t)
    /\ run_states' = StepReturn(locals', return_attention).states
    /\ last_output' = StepReturn(locals', return_attention).output
    /\ t' = 1
    /\ pc' = "stepped"
    /\ UNCHANGED <<num_senses, num_hyps, use_attention, return_attention,
                   return_sequences, stateful, weights, input_spec, states, x_t,
                   mask_t, twin_states, invocation, masked, prev_final, full_mask,
                   output_mask>>

NextStep == StepOnce

SpecStep == InitStep /\ [][NextStep]_vars

----------------------------------------------------------------------------
\* Properties of one step (SpecStep).

Tol == 1000 * EPSILON

Stepped == pc = "stepped"

Lambda == SenseParameters(x_t)

Senses == 1..Len(x_t)

Hyps == 1..Len(x_t[1])

Unmasked(s, h) == mask_t = None \/ mask_t[s][h] # 0

SenseUnmasked(s) == \E h \in Hyps : Unmasked(s, h)

\* Sum of the joint attention over the unmasked cells / over all cells.
UnmaskedAttention ==
    SumGrid(Tensor([s \in Senses |-> Tensor([h \in Hyps |->
        IF Unmasked(s, h) THEN locals.sense_hyp_attention[s][h] ELSE 0])]))

TotalAttention == SumGrid(locals.sense_hyp_attention)

\* The term cell (s, h) adds to component i of lstm_input_t.
Contribution(s, h, i) ==
    Mul(MaskedEmbeddings(SynsetEmbeddings(x_t), mask_t)[s][h][i],
        locals.sense_hyp_attention[s][h])

\* The epsilon normalisation error.  S is the sum of the sense scores that
\* survive the mask and A the smallest sum of hypernym attention within a
\* surviving sense.  The sense probabilities sum to S / (S + epsilon), and
\* within a sense the renormalised hypernym attention sums to
\* A / (A + epsilon) or more.
SurvivingScore == SumSeq(locals.sense_scores)

SenseMass == Div(SurvivingScore, SurvivingScore + EPSILON)

HypMasses == { SumSeq(locals.hyp_attention[s]) : s \in {r \in Senses : SenseUnmasked(r)} }

MinHypMass == CHOOSE a \in HypMasses : \A b \in HypMasses : a <= b

HypError == Mul(Abs(SenseMass), Div(EPSILON, MinHypMass + EPSILON)) + EPSILON

\* Rounding of the fixed-point operations: three per cell of the grid.
RoundOff == (3 * Len(Flatten(locals.sense_hyp_attention)) + 3) * EPSILON

\* C1: for a positive sense prior, in both attention modes and for every
\* mask, the joint attention sums to 1 over the unmasked cells when there is
\* one, up to the epsilon normalisation error (S / (S + epsilon) instead of
\* 1, and the hypernym error), and to 0 when every cell is masked.
C1_JointAttentionSumsToOne ==
    (Stepped /\ Lambda > 0) =>
        IF \E s \in Senses : SenseUnmasked(s)
        THEN Abs(UnmaskedAttention - SenseMass) <= HypError + RoundOff
        ELSE TotalAttention = 0

\* C2: every masked slot has joint attention exactly 0 and adds nothing to
\* lstm_input_t.
C2_MaskedSlotHasNoAttention ==
    Stepped =>
        \A s \in Senses, h \in Hyps :
            ~Unmasked(s, h) =>
                /\ locals.sense_hyp_attention[s][h] = 0
                /\ \A i \in 1..Len(locals.lstm_input_t) : Contribution(s, h, i) = 0

Degenerate == Stepped /\ num_senses = 1 /\ num_hyps = 1 /\ Unmasked(1, 1)

TheEmbedding == SynsetEmbeddings(x_t)[1][1]

\* C4 as stated: one sense, one hypernym, unmasked: lstm_input_t is the
\* embedding unchanged, for every sense prior.
C4_DegenerateInputIsEmbedding ==
    Degenerate => locals.lstm_input_t = TheEmbedding

\* lambda / (lambda + epsilon) * 1 / (1 + epsilon)
DegenerateFactor == Mul(Div(Lambda, Lambda + EPSILON), Div(One, One + EPSILON))

\* C4 as amended: for a non-zero sense prior lstm_input_t is the embedding
\* times lambda / (lambda + epsilon) * 1 / (1 + epsilon) (up to rounding), and
\* for a zero sense prior it is the zero vector.
C4_DegenerateInputNearEmbedding ==
    Degenerate =>
        \A i \in 1..Len(TheEmbedding) :
            IF Lambda = 0 THEN locals.lstm_input_t[i] = 0
            ELSE Abs(locals.lstm_input_t[i] - Mul(TheEmbedding[i], DegenerateFactor))
                     <= 3 * EPSILON

C4_Witness ==
    /\ Degenerate
    /\ use_attention
    /\ mask_t # None
    /\ Lambda = Half
    /\ locals.lstm_input_t # TheEmbedding
    /\ locals.lstm_input_t[1] # 0

SenseMaskedOut == \E s \in Senses : ~SenseUnmasked(s)

SenseLeft == \E s \in Senses : SenseUnmasked(s)

MaskedSensesAreZero ==
    \A s \in Senses : ~SenseUnmasked(s) =>
        \A h \in Hyps : locals.sense_hyp_attention[s][h] = 0

\* C5 as stated: a sense whose slots are all masked, beside a sense with an
\* unmasked slot, gets joint attention 0 in every cell, and the joint
\* attention of the timestep still sums to 1 (up to epsilon).
C5_MaskedSenseRedistributed ==
    (Stepped /\ SenseMaskedOut /\ SenseLeft) =>
        /\ MaskedSensesAreZero
        /\ Abs(TotalAttention - One) <= Tol

\* C5 as amended: the masked sense's cells are 0, the masked senses have
\* probability 0, and the joint attention of the timestep sums to
\* S / (S + epsilon), S being the sum of the scores of the remaining senses,
\* up to the hypernym error (a relative epsilon / (A + epsilon)) and rounding.
\* That is 1 up to epsilon only when S is much larger than epsilon.
C5_MaskedSenseRedistributedBySenseMass ==
    (Stepped /\ SenseMaskedOut /\ SenseLeft /\ SurvivingScore + EPSILON # 0) =>
        /\ MaskedSensesAreZero
        /\ \A s \in Senses : ~SenseUnmasked(s) => locals.sense_probabilities[s] = 0
        /\ Abs(SumSeq(locals.sense_probabilities) - SenseMass) <= num_senses * EPSILON
        /\ Abs(TotalAttention - SenseMass) <= HypError + RoundOff

\* Sense 1 masked, the tiny prior shared by senses 2 and 3: the joint
\* attention sums to about 20/21.
C5_Witness ==
    /\ Stepped
    /\ use_attention
    /\ num_senses = MaxSenses
    /\ num_hyps = MaxHyps
    /\ ~SenseUnmasked(1)
    /\ Unmasked(2, 1) /\ ~Unmasked(2, 2)
    /\ SenseUnmasked(3)
    /\ Lambda = TinyLambda
    /\ locals.sense_probabilities[1] = 0
    /\ locals.sense_probabilities[2] > Quarter
    /\ locals.sense_probabilities[3] > Quarter
    /\ One - TotalAttention > Tol
    /\ TotalAttention > Half

\* C6 as stated: for a positive sense prior the sense probabilities are
\* non-increasing in the sense index.
C6_SenseProbabilitiesNonIncreasing ==
    (Stepped /\ Lambda > 0) =>
        \A k \in 1..(num_senses - 1) :
            locals.sense_probabilities[k] >= locals.sense_probabilities[k + 1]

\* C6 as amended: for a positive sense prior, a sense whose slots are all
\* masked has probability 0 whatever its index, and along the senses that
\* have an unmasked slot (all of them when there is no mask) the
\* probabilities are non-negative and non-increasing in the sense index.
C6_UnmaskedSenseProbabilitiesNonIncreasing ==
    (Stepped /\ Lambda > 0) =>
        /\ \A k \in Senses :
               ~SenseUnmasked(k) => locals.sense_probabilities[k] = 0
        /\ \A j \in Senses, k \in Senses :
               (j < k /\ SenseUnmasked(j) /\ SenseUnmasked(k)) =>
                   /\ locals.sense_probabilities[j] >= locals.sense_probabilities[k]
                   /\ locals.sense_probabilities[k] >= 0

\* The middle sense masked: the probabilities are ordered across it.
C6_Witness ==
    /\ Stepped
    /\ Lambda = One
    /\ num_senses = MaxSenses
    /\ SenseUnmasked(1)
    /\ ~SenseUnmasked(2)
    /\ SenseUnmasked(3)
    /\ locals.sense_probabilities[2] = 0
    /\ locals.sense_probabilities[1] > locals.sense_probabilities[3]
    /\ locals.sense_probabilities[3] > 0

\* C9: without learned attention the hypernym attention before the
\* renormalisation is 1 in every unmasked cell and 0 in every masked cell,
\* whatever the previous hidden state and the embeddings are.
C9_UniformAttentionIsTheMask ==
    (Stepped /\ ~use_attention) =>
        \A s \in Senses, h \in Hyps :
            locals.hyp_attention[s][h] = IF Unmasked(s, h) THEN One ELSE 0

C9_Witness ==
    /\ Stepped
    /\ ~use_attention
    /\ states # ZeroStates
    /\ num_senses = MaxSenses
    /\ num_hyps = MaxHyps
    /\ mask_t # None
    /\ locals.hyp_attention[1][1] = One
    /\ locals.hyp_attention[1][2] = 0
    /\ locals.hyp_attention[2][1] = 0

----------------------------------------------------------------------------
\* Properties of the life cycle (Spec).

\* C7: from the second invocation on, a stateful layer starts a call from the
\* final (hidden, cell) state of the previous call, and a layer that is not
\* stateful starts from the zero state whatever the previous call left.
C7_InitialStateCarriedOver ==
    (pc = "running" /\ t = 0 /\ invocation >= 2) =>
        run_states = IF stateful THEN prev_final ELSE ZeroStates

C7_Witness ==
    /\ pc = "running"
    /\ t = 0
    /\ invocation = 2
    /\ stateful
    /\ prev_final # ZeroStates
    /\ run_states = prev_final

Conforming == input_spec = <<num_senses, num_hyps>>

\* C8: build fails when the sense or hypernym axis of the input shape differs
\* from num_senses or num_hyps: a built layer has a conforming shape, and no
\* step is computed on any other.
C8_BuildRejectsMismatch ==
    /\ pc \in {"built", "running", "returned", "error"} => Conforming
    /\ (pc = "running" /\ t >= 1) => Conforming

\* C10: the states carried from timestep to timestep are the same whether
\* return_attention is set or not; the flag only selects the emitted output,
\* the joint attention grid or the new hidden vector.
C10_CarriedStatesIgnoreReturnAttention ==
    pc = "running" =>
        /\ twin_states = run_states
        /\ t >= 1 =>
            /\ run_states = <<locals.h, locals.c>>
            /\ last_output = IF return_attention THEN locals.sense_hyp_attention
                             ELSE locals.h

C10_Witness ==
    /\ pc = "running"
    /\ t = MaxSteps
    /\ use_attention
    /\ return_attention
    /\ masked
    /\ run_states # ZeroStates
    /\ twin_states = run_states
    /\ last_output = locals.sense_hyp_attention
    /\ Flatten(last_output) # locals.h

----------------------------------------------------------------------------
\* compute_mask on its own: Init draws return_sequences and the mask argument
\* (time x senses x hyps for the one sample), ComputeMask applies it.

\* K.sum(mask, axis=(-3, -2)): of the axes (batch, time, senses, hyps) of the
\* mask, the third and the second from the end are summed away, which leaves
\* (batch, hyps).
SumAxesM3M2(mask) ==
    Tensor([h \in 1..Len(mask[1][1]) |->
        SumSeq(Tensor([tt \in 1..Len(mask) |->
            SumSeq(Tensor([s \in 1..Len(mask[tt]) |-> mask[tt][s][h]]))]))])

compute_mask(mask) ==
    IF return_sequences /\ mask # None THEN SumAxesM3M2(mask) ELSE None

FullMasks(ns, nh) == UNION { [1..n -> MaskGrids(ns, nh)] : n \in 1..MaxSteps }

InitMask ==
    /\ num_senses \in 1..MaxSenses
    /\ num_hyps \in 1..MaxHyps
    /\ use_attention = FALSE
    /\ return_attention = FALSE
    /\ return_sequences \in BOOLEAN
    /\ stateful = FALSE
    /\ weights = None
    /\ input_spec = <<num_senses, num_hyps>>
    /\ states = None
    /\ pc = "mask_ready"
    /\ t = 0
    /\ x_t = None
    /\ mask_t = None
    /\ run_states = None
    /\ twin_states = None
    /\ last_output = None
    /\ locals = None
    /\ invocation = 0
    /\ full_mask \in {None} \cup FullMasks(num_senses, num_hyps)
    /\ masked = (full_mask # None)
    /\ prev_final = None
    /\ output_mask = None

ComputeMask ==
    /\ pc = "mask_ready"
    /\ output_mask' = compute_mask(full_mask)
    /\ pc' = "mask_done"
    /\ UNCHANGED <<num_senses, num_hyps, use_attention, return_attention,
                   return_sequences, stateful, weights, input_spec, states, t,
                   x_t, mask_t, run_states, twin_states, last_output, locals,
                   invocation, masked, prev_final, full_mask>>

NextMask == ComputeMask

SpecMask == InitMask /\ [][NextMask]_vars

\* C3: with return_sequences set and a mask given, compute_mask returns one
\* flag per timestep, truthy exactly when some (sense, hyp) slot of the
\* timestep is unmasked.
C3_OutputMaskPerTimestep ==
    (pc = "mask_done" /\ return_sequences /\ full_mask # None) =>
        /\ Len(output_mask) = Len(full_mask)
        /\ \A tt \in 1..Len(full_mask) :
               (output_mask[tt] # 0) <=>
                   (\E s \in 1..num_senses, h \in 1..num_hyps :
                        full_mask[tt][s][h] # 0)

====
